---- MODULE Spec2Model ----
(***************************************************************************)
(* Model of the crypto market tracker: the polling loop CryptoWebTracker.run *)
(* (src/app.py) with its fetch / process / analyze / publish steps, the     *)
(* Flask handler home() that reads the snapshot concurrently, and the       *)
(* start()/stop() pair of CryptoTracker (src/main.py), whose run() is the   *)
(* same loop without the snapshot assignment.                               *)
(*                                                                         *)
(* Python values: an Optional (None or a value) is a sequence of length at  *)
(* most one; a float is an Optional integer, NaN being the empty one.       *)
(* A symbol string is a sequence of tokens ("BTC", "USDT", ...), so that    *)
(* endswith / replace act on occurrences of the token "USDT".               *)
(***************************************************************************)
EXTENDS Integers, Sequences, FiniteSets, TLC

----------------------------------------------------------------------------
(* Python values *)

None == <<>>
Some(x) == <<x>>
IsNone(o) == o = <<>>
Val(o) == o[1]

NaN == <<>>
IsNaN(x) == x = <<>>

Min2(a, b) == IF a <= b THEN a ELSE b

\* The integers whose decimal strings the feeds of this model use.
NumRange == -2..70

\* pd.to_numeric(..., errors='coerce') on one cell: a decimal string becomes
\* its number, anything else becomes NaN.
Numeral == [n \in NumRange |-> ToString(n)]

to_numeric(s) ==
    IF \E n \in NumRange : Numeral[n] = s
    THEN Some(CHOOSE n \in NumRange : Numeral[n] = s)
    ELSE NaN

\* str.upper() on one token of a symbol.
upper(t) ==
    CASE t = "btc" -> "BTC"
      [] t = "eth" -> "ETH"
      [] t = "usdt" -> "USDT"
      [] OTHER -> t

\* symbol.endswith('USDT')
endswith_USDT(sym) == Len(sym) > 0 /\ sym[Len(sym)] = "USDT"

\* symbol.replace('USDT', ''): every occurrence is removed.
replace_USDT(sym) == SelectSeq(sym, LAMBDA t : t # "USDT")

upper_sym(sym) == [i \in 1..Len(sym) |-> upper(sym[i])]

\* names.get(sym, sym): the map is a function from symbols to names.
names_get(names, sym) == IF sym \in DOMAIN names THEN names[sym] ELSE sym

----------------------------------------------------------------------------
(* get_coin_names / get_market_data *)

\* What the coin-listing request yields: the map built from a 200 response,
\* or {} after a non-200 response or an exception.
get_coin_names(r) ==
    IF r.raises \/ r.status_code # 200
    THEN <<>>
    ELSE LET coins == r.json
             last(k) == CHOOSE i \in 1..Len(coins) :
                            /\ upper_sym(coins[i].symbol) = k
                            /\ \A j \in (i+1)..Len(coins) :
                                    upper_sym(coins[j].symbol) # k
         IN  [k \in {upper_sym(coins[i].symbol) : i \in 1..Len(coins)} |->
                coins[last(k)].name]

\* The rows of a ticker response whose symbol ends with USDT, each given a
\* 'name'; None after a non-200 response or any exception (a transport
\* error, or a row without 'symbol').
get_market_data(r, names) ==
    IF r.raises \/ r.status_code # 200
    THEN None
    ELSE IF \E i \in 1..Len(r.json) : "symbol" \notin DOMAIN r.json[i]
    THEN None
    ELSE LET usdt_pairs == SelectSeq(r.json, LAMBDA x : endswith_USDT(x.symbol))
         IN  Some([i \in 1..Len(usdt_pairs) |->
                    ("name" :> names_get(names,
                                upper_sym(replace_USDT(usdt_pairs[i].symbol))))
                    @@ usdt_pairs[i]])

\* Python truth value of the result: None and [] are both falsy.
Falsy(data) == IsNone(data) \/ Val(data) = <<>>

----------------------------------------------------------------------------
(* process_data *)

number_cols ==
    {"lastPrice", "volume", "quoteVolume", "priceChangePercent", "weightedAvgPrice"}

\* head(50)
TopN == 50

\* pd.DataFrame(raw_data) has a column when some row has the key.
HasColumn(raw, col) == \E i \in 1..Len(raw) : col \in DOMAIN raw[i]

\* df[col] raises KeyError for a column no row has (so for an empty list too).
process_data_raises(raw) ==
    \E col \in number_cols \cup {"name", "symbol"} : ~HasColumn(raw, col)

\* One cell after to_numeric: a row without the key holds NaN.
Cell(row, col) == IF col \in DOMAIN row THEN to_numeric(row[col]) ELSE NaN

\* A column of the frame after to_numeric, as a sequence of cells.
Column(raw, col) ==
    SubSeq([i \in 1..Len(raw) |-> Cell(raw[i], col)], 1, Len(raw))

\* Row j comes before row i in the descending sort that is stable and puts
\* NaN last.
Ahead(key, j, i) ==
    \/ ~IsNaN(key[j]) /\ IsNaN(key[i])
    \/ ~IsNaN(key[j]) /\ ~IsNaN(key[i]) /\ Val(key[j]) > Val(key[i])
    \/ /\ IsNaN(key[j]) <=> IsNaN(key[i])
       /\ IsNaN(key[j]) \/ Val(key[j]) = Val(key[i])
       /\ j < i

\* The row indices in that order.
StableOrder(key) ==
    LET n == Len(key)
        rank == SubSeq([i \in 1..n |->
                    1 + Cardinality({j \in 1..n : Ahead(key, j, i)})], 1, n)
    IN  SubSeq([r \in 1..n |-> CHOOSE i \in 1..n : rank[i] = r], 1, n)

\* The rows whose key is the same number as row i's.
TieGroup(key, i) ==
    {j \in 1..Len(key) :
        ~IsNaN(key[i]) /\ ~IsNaN(key[j]) /\ Val(key[j]) = Val(key[i])}

\* df.sort_values(col, ascending=False): every order of the row indices the
\* sort may return. The keys descend and NaN keys come last, in input order;
\* rows with equal keys may come in any order, since sort_values runs with
\* its default kind='quicksort', which is not a stable sort.
SortOrders(key) ==
    UNION {
        LET n == Len(key)
            tied == {r \in 1..n : Cardinality(TieGroup(key, base[r])) > 1}
            pool == {base[r] : r \in tied}
            picks == {f \in [tied -> pool] :
                        /\ \A r \in tied : f[r] \in TieGroup(key, base[r])
                        /\ \A r1, r2 \in tied : f[r1] = f[r2] => r1 = r2}
        IN  {SubSeq([r \in 1..n |-> IF r \in tied THEN f[r] ELSE base[r]],
                    1, n) : f \in picks}
        : base \in {StableOrder(key)}}

head(o, k) == SubSeq(o, 1, Min2(k, Len(o)))

Mul(a, b) == IF IsNaN(a) \/ IsNaN(b) THEN NaN ELSE Some(Val(a) * Val(b))

\* The row of the final frame built from raw row i (idx is the frame's index
\* label, the row's position in the input).
FinalRow(raw, i) ==
    [idx |-> i,
     Name |-> raw[i].name,
     Symbol |-> replace_USDT(raw[i].symbol),
     Price |-> Cell(raw[i], "lastPrice"),
     Market_Cap |-> Mul(Cell(raw[i], "lastPrice"), Cell(raw[i], "volume")),
     Volume_24h |-> Cell(raw[i], "volume"),
     Change_24h |-> Cell(raw[i], "priceChangePercent"),
     Avg_Price |-> Cell(raw[i], "weightedAvgPrice")]

\* The frames process_data may return for raw_data (when it does not raise).
process_data(raw) ==
    UNION {{[j \in 1..Len(head(o, TopN)) |-> FinalRow(raw, o[j])] :
                o \in SortOrders(key)} :
            key \in {Column(raw, "quoteVolume")}}

\* df.to_dict('records'): the rows without the index.
to_dict_records(df) ==
    [j \in 1..Len(df) |->
        [Name |-> df[j].Name, Symbol |-> df[j].Symbol, Price |-> df[j].Price,
         Market_Cap |-> df[j].Market_Cap, Volume_24h |-> df[j].Volume_24h,
         Change_24h |-> df[j].Change_24h, Avg_Price |-> df[j].Avg_Price]]

----------------------------------------------------------------------------
(* analyze_market *)

\* The non-NaN values of a column, in row order (skipna).
Values(df, col) ==
    LET present == SelectSeq(df, LAMBDA row : ~IsNaN(row[col]))
    IN  [j \in 1..Len(present) |-> Val(present[j][col])]

RECURSIVE SeqSum(_)
\* The sum of a sequence of numbers, by halves.
SeqSum(v) ==
    IF Len(v) = 0 THEN 0
    ELSE IF Len(v) = 1 THEN v[1]
    ELSE LET h == Len(v) \div 2
         IN  SeqSum(SubSeq(v, 1, h)) + SeqSum(SubSeq(v, h + 1, Len(v)))

\* Series.sum(): NaN cells are skipped, an all-NaN or empty column sums to 0.
ColSum(df, col) == Some(SeqSum(Values(df, col)))

\* Series.mean(): the ratio <<sum, count>> of the non-NaN cells, NaN if none.
ColMean(df, col) ==
    LET v == Values(df, col)
    IN  IF v = <<>> THEN NaN ELSE Some(<<SeqSum(v), Len(v)>>)

\* The k-th smallest (k >= 1) of the values v.
Kth(v, k) ==
    CHOOSE x \in {v[j] : j \in 1..Len(v)} :
        /\ Cardinality({j \in 1..Len(v) : v[j] < x}) < k
        /\ Cardinality({j \in 1..Len(v) : v[j] <= x}) >= k

\* Series.median(): the ratio <<a + b, 2>> of the two middle non-NaN cells
\* (the same cell twice for an odd count), NaN if there is none.
ColMedian(df, col) ==
    LET v == Values(df, col)
        n == Len(v)
    IN  IF n = 0 THEN NaN
        ELSE Some(<<Kth(v, (n + 1) \div 2) + Kth(v, (n + 2) \div 2), 2>>)

ColMax(df, col) ==
    LET v == Values(df, col)
    IN  IF v = <<>> THEN NaN ELSE Some(Kth(v, Len(v)))

ColMin(df, col) ==
    LET v == Values(df, col)
    IN  IF v = <<>> THEN NaN ELSE Some(Kth(v, 1))

\* CountPositive with a fault: the test is >= 0, so a zero change counts.
CountPositive_OrZero(df, col) == Len(SelectSeq(df, LAMBDA row : ~IsNaN(row[col]) /\ Val(row[col]) >= 0))

\* len(df[df[col] > 0]) and len(df[df[col] < 0]): a comparison with NaN is
\* False.
CountPositive(df, col) == Len(SelectSeq(df, LAMBDA row : ~IsNaN(row[col]) /\ Val(row[col]) > 0))
CountNegative(df, col) == Len(SelectSeq(df, LAMBDA row : ~IsNaN(row[col]) /\ Val(row[col]) < 0))

\* The frame positions in the order df.nlargest(.., col) (sign = 1) or
\* df.nsmallest(.., col) (sign = -1) ranks them: non-NaN cells first, by
\* value, equal values in frame order (keep='first'); NaN cells after them,
\* in frame order.
Ranked(df, col, sign) ==
    LET n == Len(df)
        ahead(a, b) ==
            \/ ~IsNaN(df[a][col]) /\ IsNaN(df[b][col])
            \/ /\ ~IsNaN(df[a][col]) /\ ~IsNaN(df[b][col])
               /\ sign * Val(df[a][col]) > sign * Val(df[b][col])
            \/ /\ (IsNaN(df[a][col]) <=> IsNaN(df[b][col]))
               /\ (~IsNaN(df[a][col]) => Val(df[a][col]) = Val(df[b][col]))
               /\ a < b
        rank(a) == 1 + Cardinality({b \in 1..n : ahead(b, a)})
    IN  [r \in 1..n |-> CHOOSE a \in 1..n : rank(a) = r]

\* nlargest(k, col) / nsmallest(k, col) projected on the listed columns.
Top5Record(row) ==
    [Name |-> row.Name, Symbol |-> row.Symbol,
     Market_Cap |-> row.Market_Cap, Price |-> row.Price]

ChangeRecord(row) ==
    [Name |-> row.Name, Symbol |-> row.Symbol, Change_24h |-> row.Change_24h]

\* ...to_dict('records')[0] raises IndexError on an empty frame.
analyze_market_raises(df) == Len(df) = 0

\* TotalMarketCap with a fault: the volume column is summed.
TotalMarketCap_OfVolume(df) == ColSum(df, "Volume_24h")

TotalMarketCap(df) == ColSum(df, "Market_Cap")

\* The stats dict, `now` being datetime.now() at the call.
analyze_market(df, now) ==
    LET byCap == Ranked(df, "Market_Cap", 1)
        byChangeDesc == Ranked(df, "Change_24h", 1)
        byChangeAsc == Ranked(df, "Change_24h", -1)
    IN  [timestamp |-> now,
         market_overview |->
            [total_market_cap |-> TotalMarketCap(df),
             total_volume_24h |-> ColSum(df, "Volume_24h"),
             avg_price |-> ColMean(df, "Price"),
             median_price |-> ColMedian(df, "Price")],
         market_health |->
            [positive_performers |-> CountPositive(df, "Change_24h"),
             negative_performers |-> CountNegative(df, "Change_24h")],
         detailed_analysis |->
            [top_5_by_market_cap |->
                [r \in 1..Min2(5, Len(df)) |-> Top5Record(df[byCap[r]])],
             price_statistics |->
                [average_price |-> ColMean(df, "Price"),
                 median_price |-> ColMedian(df, "Price"),
                 highest_price |-> ColMax(df, "Price"),
                 lowest_price |-> ColMin(df, "Price")],
             price_changes |->
                [highest_24h_change |-> ChangeRecord(df[byChangeDesc[1]]),
                 lowest_24h_change |-> ChangeRecord(df[byChangeAsc[1]]),
                 average_24h_change |-> ColMean(df, "Change_24h")]]]

----------------------------------------------------------------------------
(* The feeds: what the two HTTP requests may return *)

Row(sym, price, vol, qvol, chg, avg) ==
    [symbol |-> sym, lastPrice |-> price, volume |-> vol, quoteVolume |-> qvol,
     priceChangePercent |-> chg, weightedAvgPrice |-> avg]

Response(rows) == [raises |-> FALSE, status_code |-> 200, json |-> rows]

TransportError == [raises |-> TRUE, status_code |-> 0, json |-> <<>>]
Unavailable == [raises |-> FALSE, status_code |-> 503, json |-> <<>>]

TickerResponses ==
    {TransportError,
     Unavailable,
     \* three USDT pairs (an average price and a price unparseable) and one
     \* pair quoted in BTC
     Response(<<Row(<<"ETH", "USDT">>, "3", "1", "3", "-1", "n/a"),
                Row(<<"ETH", "BTC">>, "1", "1", "5", "1", "1"),
                Row(<<"BTC", "USDT">>, "5", "2", "9", "1", "4"),
                Row(<<"SOL", "USDT">>, "n/a", "2", "2", "0", "1")>>),
     \* no USDT pair at all
     Response(<<Row(<<"ETH", "BTC">>, "1", "1", "5", "1", "1")>>),
     \* rows without the 'volume' key
     Response(<<[symbol |-> <<"BTC", "USDT">>, lastPrice |-> "5",
                 quoteVolume |-> "9", priceChangePercent |-> "1",
                 weightedAvgPrice |-> "4"]>>)}

CoinResponses ==
    {TransportError,
     Response(<<[symbol |-> <<"btc">>, name |-> <<"Bitcoin">>]>>)}

----------------------------------------------------------------------------
(* State *)

\* datetime.now().hour is the hour of the day
HoursPerDay == 24

\* The clock counts hours; it is followed for MaxDays days and, in each of
\* them, for the first MaxHours hours after midnight.
MaxDays == 1
MaxHours == 1

ClockValues == {d * HoursPerDay + h : d \in 0..MaxDays, h \in 0..MaxHours}

VARIABLES
    clock,              \* wall clock, in hours since the program started
    running,            \* self.running
    last_report_hour,   \* self.last_report_hour
    latest_data,        \* self.latest_data
    excel_file,         \* content of crypto_data.xlsx
    report_file,        \* content of market_report.docx
    pc,                 \* position of the run() thread
    data, df, stats,    \* locals of run()
    current_hour,       \* local of run()
    exc,                \* the exception caught by run()'s except clause
    stop_pc,            \* position of the thread that calls stop()
    h_pc,               \* position of a home() request
    h_data, h_stats, h_last_updated,  \* the arguments home() has evaluated
    h_response,         \* what the last home() request returned
    cycle_start,        \* history: latest_data when the current cycle began
    read_at,            \* history: the clock when current_hour was read
    doc_at,             \* history: read_at of the cycle that wrote report_file
    failed_at           \* history: read_at of the cycle whose make_report
                        \* raised, until a make_report returns

tracker == <<running, last_report_hour, latest_data, excel_file, report_file>>
locals == <<data, df, stats, current_hour, exc>>
homeVars == <<h_pc, h_data, h_stats, h_last_updated, h_response>>
history == <<cycle_start, read_at, doc_at, failed_at>>
vars == <<clock, tracker, pc, locals, stop_pc, homeVars, history>>

EmptySnapshot == [data |-> None, stats |-> None, last_updated |-> None]

Init ==
    /\ clock = 0
    /\ running = TRUE
    /\ last_report_hour = None
    /\ latest_data = EmptySnapshot
    /\ excel_file = None
    /\ report_file = None
    /\ pc = "test"
    /\ data = None
    /\ df = <<>>
    /\ stats = None
    /\ current_hour = None
    /\ exc = "none"
    /\ stop_pc = "idle"
    /\ h_pc = "idle"
    /\ h_data = None
    /\ h_stats = None
    /\ h_last_updated = None
    /\ h_response = "none"
    /\ cycle_start = EmptySnapshot
    /\ read_at = None
    /\ doc_at = None
    /\ failed_at = None

----------------------------------------------------------------------------
(* CryptoWebTracker.run *)

\* LoopTest with a fault: the loop is `while True`.
LoopTest_IgnoresRunning ==
    /\ pc = "test"
    /\ pc' = "fetch"
    /\ data' = None
    /\ df' = <<>>
    /\ stats' = None
    /\ current_hour' = None
    /\ read_at' = None
    /\ cycle_start' = latest_data
    /\ UNCHANGED <<clock, tracker, exc, stop_pc, homeVars, doc_at, failed_at>>

\* while self.running: the loop is entered again, or run() returns.
\* The locals of run() are dead at this point (each is assigned before it is
\* read in the iteration that follows), so the model forgets their values
\* when a new iteration is entered.
LoopTest ==
    /\ pc = "test"
    /\ IF running
       THEN /\ pc' = "fetch"
            /\ data' = None
            /\ df' = <<>>
            /\ stats' = None
            /\ current_hour' = None
            /\ read_at' = None
       ELSE /\ pc' = "exited"
            /\ UNCHANGED <<data, df, stats, current_hour, read_at>>
    /\ cycle_start' = latest_data
    /\ UNCHANGED <<clock, tracker, exc, stop_pc, homeVars, doc_at, failed_at>>

\* Fetch with a fault: a failed fetch resets the snapshot to the empty one.
Fetch_ClearsSnapshot ==
    /\ pc = "fetch"
    /\ \E r \in TickerResponses, c \in CoinResponses :
            data' = get_market_data(r, get_coin_names(c))
    /\ pc' = IF Falsy(data') THEN "test" ELSE "process"
    /\ latest_data' = IF IsNone(data') THEN EmptySnapshot ELSE latest_data
    /\ UNCHANGED <<clock, running, last_report_hour, excel_file, report_file,
                   df, stats, current_hour, exc, stop_pc, homeVars, history>>

\* data = self.get_market_data(); if not data: continue
\* (continue jumps to the loop test: the sleep at the end of the body is
\* skipped).
Fetch ==
    /\ pc = "fetch"
    /\ \E r \in TickerResponses, c \in CoinResponses :
            data' = get_market_data(r, get_coin_names(c))
    /\ pc' = IF Falsy(data') THEN "test" ELSE "process"
    /\ UNCHANGED <<clock, tracker, df, stats, current_hour, exc, stop_pc,
                   homeVars, history>>

\* df = self.process_data(data)
Process ==
    /\ pc = "process"
    /\ IF process_data_raises(Val(data))
       THEN /\ exc' = "KeyError"
            /\ pc' = "except"
            /\ df' = df
       ELSE /\ df' \in process_data(Val(data))
            /\ pc' = "analyze"
            /\ exc' = exc
    /\ UNCHANGED <<clock, tracker, data, stats, current_hour, stop_pc,
                   homeVars, history>>

\* stats = self.analyze_market(df)
Analyze ==
    /\ pc = "analyze"
    /\ IF analyze_market_raises(df)
       THEN /\ exc' = "IndexError"
            /\ pc' = "except"
            /\ stats' = stats
       ELSE /\ stats' = Some(analyze_market(df, clock))
            /\ pc' = "excel"
            /\ exc' = exc
    /\ UNCHANGED <<clock, tracker, data, df, current_hour, stop_pc,
                   homeVars, history>>

\* What a written file holds: the table and the stats it was rendered from.
Written(table, st) == Some([data |-> to_dict_records(table), stats |-> st])

\* The dict run() builds for self.latest_data.
Snapshot(table, st) ==
    [data |-> Some(to_dict_records(table)),
     stats |-> Some(st),
     last_updated |-> Some(st.timestamp)]

\* UpdateExcel with a fault: the snapshot is assigned before the write, so a
\* write that raises leaves the new snapshot behind.
UpdateExcel_AfterStore ==
    /\ pc = "excel"
    /\ latest_data' = Snapshot(df, Val(stats))
    /\ \/ /\ excel_file' = Written(df, Val(stats))
          /\ pc' = "store"
          /\ exc' = exc
       \/ /\ exc' = "OSError"
          /\ pc' = "except"
          /\ excel_file' = excel_file
    /\ UNCHANGED <<clock, running, last_report_hour, report_file,
                   data, df, stats, current_hour, stop_pc, homeVars, history>>

\* self.update_excel(df, stats): the file is rewritten, or the write raises
\* (the file cannot be opened for writing) and the file stays as it was.
UpdateExcel ==
    /\ pc = "excel"
    /\ \/ /\ excel_file' = Written(df, Val(stats))
          /\ pc' = "store"
          /\ exc' = exc
       \/ /\ exc' = "OSError"
          /\ pc' = "except"
          /\ excel_file' = excel_file
    /\ UNCHANGED <<clock, running, last_report_hour, latest_data, report_file,
                   data, df, stats, current_hour, stop_pc, homeVars, history>>

\* self.latest_data = {...}: one store of a reference to a new dict.
StoreSnapshot ==
    /\ pc = "store"
    /\ latest_data' = Snapshot(df, Val(stats))
    /\ pc' = "hour"
    /\ UNCHANGED <<clock, running, last_report_hour, excel_file, report_file,
                   locals, stop_pc, homeVars, history>>

\* current_hour = datetime.now().hour; if self.last_report_hour != current_hour
ReadHour ==
    /\ pc = "hour"
    /\ current_hour' = Some(clock % HoursPerDay)
    /\ read_at' = Some(clock)
    /\ pc' = IF last_report_hour # current_hour' THEN "report" ELSE "done"
    /\ UNCHANGED <<clock, tracker, data, df, stats, exc, stop_pc, homeVars,
                   cycle_start, doc_at, failed_at>>

\* MakeReport with a fault: make_report is called outside the try block, so
\* an exception it raises ends run().
MakeReport_Uncaught ==
    /\ pc = "report"
    /\ \/ /\ report_file' = Written(df, Val(stats))
          /\ last_report_hour' = current_hour
          /\ doc_at' = read_at
          /\ failed_at' = None
          /\ pc' = "done"
          /\ exc' = exc
       \/ /\ exc' = "OSError"
          /\ pc' = "exited"
          /\ failed_at' = read_at
          /\ UNCHANGED <<report_file, last_report_hour, doc_at>>
    /\ UNCHANGED <<clock, running, latest_data, excel_file, data, df, stats,
                   current_hour, stop_pc, homeVars, cycle_start, read_at>>

\* MakeReport with a fault: the marker is assigned before make_report is
\* called, so it is set even when the write raises.
MakeReport_MarksFirst ==
    /\ pc = "report"
    /\ last_report_hour' = current_hour
    /\ \/ /\ report_file' = Written(df, Val(stats))
          /\ doc_at' = read_at
          /\ failed_at' = None
          /\ pc' = "done"
          /\ exc' = exc
       \/ /\ exc' = "OSError"
          /\ pc' = "except"
          /\ failed_at' = read_at
          /\ UNCHANGED <<report_file, doc_at>>
    /\ UNCHANGED <<clock, running, latest_data, excel_file, data, df, stats,
                   current_hour, stop_pc, homeVars, cycle_start, read_at>>

\* self.make_report(df, stats); self.last_report_hour = current_hour
\* or make_report raises and the marker is not assigned.
MakeReport ==
    /\ pc = "report"
    /\ \/ /\ report_file' = Written(df, Val(stats))
          /\ last_report_hour' = current_hour
          /\ doc_at' = read_at
          /\ failed_at' = None
          /\ pc' = "done"
          /\ exc' = exc
       \/ /\ exc' = "OSError"
          /\ pc' = "except"
          /\ failed_at' = read_at
          /\ UNCHANGED <<report_file, last_report_hour, doc_at>>
    /\ UNCHANGED <<clock, running, latest_data, excel_file, data, df, stats,
                   current_hour, stop_pc, homeVars, cycle_start, read_at>>

\* print("Done! ..."): the try block ends.
Done ==
    /\ pc = "done"
    /\ pc' = "sleep"
    /\ UNCHANGED <<clock, tracker, locals, stop_pc, homeVars, history>>

\* except Exception as e: print(...)
Except ==
    /\ pc = "except"
    /\ pc' = "sleep"
    /\ exc' = "none"
    /\ UNCHANGED <<clock, tracker, data, df, stats, current_hour, stop_pc,
                   homeVars, history>>

\* time.sleep(self.update_interval)
Sleep ==
    /\ pc = "sleep"
    /\ pc' = "test"
    /\ UNCHANGED <<clock, tracker, locals, stop_pc, homeVars, history>>

\* Time passes: an hour, or a day (while the loop is blocked in a request
\* or asleep, or while the fetches keep failing).
Tick ==
    /\ \E d \in {1, HoursPerDay} :
            /\ clock + d \in ClockValues
            /\ clock' = clock + d
    /\ UNCHANGED <<tracker, pc, locals, stop_pc, homeVars, history>>

----------------------------------------------------------------------------
(* CryptoTracker.stop (src/main.py) *)

\* self.running = False
StopRequest ==
    /\ stop_pc = "idle"
    /\ running' = FALSE
    /\ stop_pc' = "join"
    /\ UNCHANGED <<clock, last_report_hour, latest_data, excel_file,
                   report_file, pc, locals, homeVars, history>>

\* self.thread.join() returns once run() has returned.
StopJoin ==
    /\ stop_pc = "join"
    /\ pc = "exited"
    /\ stop_pc' = "stopped"
    /\ UNCHANGED <<clock, tracker, pc, locals, homeVars, history>>

----------------------------------------------------------------------------
(* home (src/app.py) *)

\* HomeCheck with a fault: the None test is missing, the page is rendered
\* whatever the snapshot holds.
HomeCheck_AlwaysRenders ==
    /\ h_pc = "idle"
    /\ h_response' = "none"
    /\ h_pc' = "data"
    /\ h_data' = None
    /\ h_stats' = None
    /\ h_last_updated' = None
    /\ UNCHANGED <<clock, tracker, pc, locals, stop_pc, history>>

\* if tracker.latest_data['data'] is None: return "Loading data..."
HomeCheck ==
    /\ h_pc = "idle"
    /\ IF IsNone(latest_data.data)
       THEN /\ h_response' = "loading"
            /\ h_pc' = "idle"
       ELSE /\ h_response' = "none"
            /\ h_pc' = "data"
    /\ h_data' = None
    /\ h_stats' = None
    /\ h_last_updated' = None
    /\ UNCHANGED <<clock, tracker, pc, locals, stop_pc, history>>

\* data=tracker.latest_data['data']
HomeReadData ==
    /\ h_pc = "data"
    /\ h_data' = latest_data.data
    /\ h_pc' = "stats"
    /\ UNCHANGED <<clock, tracker, pc, locals, stop_pc, h_stats,
                   h_last_updated, h_response, history>>

\* stats=tracker.latest_data['stats']
HomeReadStats ==
    /\ h_pc = "stats"
    /\ h_stats' = latest_data.stats
    /\ h_pc' = "last_updated"
    /\ UNCHANGED <<clock, tracker, pc, locals, stop_pc, h_data,
                   h_last_updated, h_response, history>>

\* last_updated=tracker.latest_data['last_updated']
HomeReadLastUpdated ==
    /\ h_pc = "last_updated"
    /\ h_last_updated' = latest_data.last_updated
    /\ h_pc' = "render"
    /\ UNCHANGED <<clock, tracker, pc, locals, stop_pc, h_data, h_stats,
                   h_response, history>>

\* return render_template_string(HTML_TEMPLATE, data=.., stats=.., ..)
HomeRender ==
    /\ h_pc = "render"
    /\ h_response' = "page"
    /\ h_pc' = "idle"
    /\ UNCHANGED <<clock, tracker, pc, locals, stop_pc, h_data, h_stats,
                   h_last_updated, history>>

----------------------------------------------------------------------------

Loop ==
    \/ LoopTest \/ Fetch \/ Process \/ Analyze \/ UpdateExcel
    \/ StoreSnapshot \/ ReadHour \/ MakeReport \/ Done \/ Except \/ Sleep

Home ==
    \/ HomeCheck \/ HomeReadData \/ HomeReadStats \/ HomeReadLastUpdated
    \/ HomeRender

Stop == StopRequest \/ StopJoin

\* The loop as time passes.
Next == Loop \/ Tick

Spec == Init /\ [][Next]_vars

\* The loop of src/app.py and the requests served beside it.
NextHome == Loop \/ Home

HomeSpec == Init /\ [][NextHome]_vars

\* The loop of src/main.py and the thread that stops it. Each thread is
\* scheduled again and again, and every call the loop makes returns.
NextStop == Loop \/ Stop

StopSpec == Init /\ [][NextStop]_vars /\ WF_vars(Loop) /\ WF_vars(StopJoin)

----------------------------------------------------------------------------
(* The aggregator on its own: process_data, then analyze_market *)

\* The longest list of rows tried as such, and as the tail of a long list.
MaxRows == 3

RECURSIVE SeqsUpTo(_, _)
\* The sequences over S of length at most n.
SeqsUpTo(S, n) ==
    IF n = 0 THEN {<<>>}
    ELSE LET shorter == SeqsUpTo(S, n - 1)
         IN  shorter \cup {Append(q, x) : q \in shorter, x \in S}

\* Eligible rows that differ in quoteVolume and in price.
AggRows ==
    {Row(<<"ETH", "USDT">>, price, "1", qvol, "1", "1") :
        price \in {"1", "3"}, qvol \in {"1", "2"}}

\* TopN - 1 eligible rows, each with a quoteVolume of its own above those
\* of AggRows.
PadRows ==
    [i \in 1..(TopN - 1) |->
        Row(<<"BTC", "USDT">>, "1", "1", ToString(10 + i), "-1", "1")]

\* Short lists, and lists that reach and pass TopN rows.
AggInputs ==
    LET tails == SeqsUpTo(AggRows, MaxRows) \ {<<>>}
    IN  tails \cup {PadRows \o t : t \in tails}

InitAgg ==
    /\ clock = 0
    /\ running = TRUE
    /\ last_report_hour = None
    /\ latest_data = EmptySnapshot
    /\ excel_file = None
    /\ report_file = None
    /\ pc = "process"
    /\ data \in {get_market_data(Response(rows), <<>>) : rows \in AggInputs}
    /\ df = <<>>
    /\ stats = None
    /\ current_hour = None
    /\ exc = "none"
    /\ stop_pc = "idle"
    /\ h_pc = "idle"
    /\ h_data = None
    /\ h_stats = None
    /\ h_last_updated = None
    /\ h_response = "none"
    /\ cycle_start = EmptySnapshot
    /\ read_at = None
    /\ doc_at = None
    /\ failed_at = None

NextAgg == Process \/ Analyze

AggSpec == InitAgg /\ [][NextAgg]_vars

----------------------------------------------------------------------------
(* The aggregator on rows with missing values, odd symbols, or no rows *)

\* A numeric field that does not parse.
Malformed == "n/a"

\* Eligible rows that differ in the 24h change: up, down, flat, malformed.
ChangeRows ==
    {Row(<<"ETH", "USDT">>, "1", "1", "1", chg, "1") :
        chg \in {"1", "-1", "0", Malformed}}

\* An eligible row whose fields all parse, and a row of larger quoteVolume
\* with one field malformed.
GoodRow == Row(<<"SOL", "USDT">>, "3", "2", "1", "1", "3")

BadRow(col) == [[GoodRow EXCEPT !["quoteVolume"] = "2"] EXCEPT ![col] = Malformed]

\* A malformed row alone, beside a good row, and in a list of TopN + 1 rows.
FieldInputs ==
    UNION {{<<BadRow(col)>>, <<BadRow(col), GoodRow>>, <<GoodRow, BadRow(col)>>,
            PadRows \o <<BadRow(col), GoodRow>>,
            PadRows \o <<GoodRow, BadRow(col)>>} : col \in number_cols}

\* Eligible symbols: plain ones, and one that holds USDT before its suffix.
SymbolInputs ==
    {<<Row(sym, "1", "1", "1", "1", "1")>> :
        sym \in {<<"BTC", "USDT">>, <<"SOL", "USDT">>,
                 <<"USDT", "BTC", "USDT">>}}

RowInputs ==
    (SeqsUpTo(ChangeRows, MaxRows) \ {<<>>}) \cup FieldInputs \cup SymbolInputs

\* process_data is called on what get_market_data returns for these rows;
\* with no row at all it is called on the empty list.
InitRows ==
    /\ clock = 0
    /\ running = TRUE
    /\ last_report_hour = None
    /\ latest_data = EmptySnapshot
    /\ excel_file = None
    /\ report_file = None
    /\ pc = "process"
    /\ data \in {get_market_data(Response(rows), get_coin_names(c)) :
                    rows \in RowInputs \cup {<<>>}, c \in CoinResponses}
    /\ df = <<>>
    /\ stats = None
    /\ current_hour = None
    /\ exc = "none"
    /\ stop_pc = "idle"
    /\ h_pc = "idle"
    /\ h_data = None
    /\ h_stats = None
    /\ h_last_updated = None
    /\ h_response = "none"
    /\ cycle_start = EmptySnapshot
    /\ read_at = None
    /\ doc_at = None
    /\ failed_at = None

RowSpec == InitRows /\ [][NextAgg]_vars

----------------------------------------------------------------------------
(* Claims about the loop, checked under Spec *)

\* The step in which get_market_data() returns.
FetchReturns == pc = "fetch" /\ pc' # "fetch"

\* The step in which a call of the try block raises into the except clause.
Raises == pc # "except" /\ pc' = "except"

\* C1: when get_market_data() returns None or [], the cycle skips
\* aggregation and publishing and goes to the sleep: the loop sleeps once
\* before it fetches again.
C1_FailedFetchSleeps ==
    [][(FetchReturns /\ Falsy(data')) => pc' = "sleep"]_vars

\* C3: a cycle whose ticker request fails (get_market_data() returns None)
\* leaves latest_data and last_report_hour as they were when the cycle began,
\* writes neither file, and ends without an exception reaching run().
C3_FailedFetchLeavesState ==
    [][(FetchReturns /\ IsNone(data')) =>
            /\ latest_data' = latest_data
            /\ latest_data' = cycle_start
            /\ last_report_hour' = last_report_hour
            /\ excel_file' = excel_file
            /\ report_file' = report_file
            /\ exc' = "none"
            /\ pc' = "test"]_vars

\* A failed fetch has just ended a cycle that began with a snapshot and a
\* report marker in place.
C3_Witness ==
    /\ pc = "test"
    /\ IsNone(data)
    /\ ~IsNone(latest_data.data)
    /\ ~IsNone(last_report_hour)
    /\ ~IsNone(excel_file)

\* C4: when update_excel() or make_report() raises in a cycle whose fetch and
\* aggregation succeeded, the loop goes on and the snapshot is the one of
\* that cycle.
C4_WriteFailureStillStores ==
    [][(Raises /\ pc \in {"excel", "report"}) =>
            latest_data' = Snapshot(df, Val(stats))]_vars

\* C5 as stated: whichever step raises, the snapshot after the cycle is the
\* one the cycle began with.
C5_ExceptionKeepsSnapshot ==
    [][Raises => latest_data' = cycle_start]_vars

\* C5 amended: an exception raised by process_data, analyze_market or
\* update_excel is caught in run() and leaves the snapshot the cycle began
\* with; an exception raised by make_report is caught too, but the snapshot
\* is by then the one of this cycle. Nothing after the raise changes it.
C5_ExceptionKeepsSnapshotUnlessStored ==
    [][/\ Raises =>
            IF pc = "report"
            THEN latest_data' = Snapshot(df, Val(stats))
            ELSE latest_data' = cycle_start
       /\ pc \in {"except", "sleep"} => latest_data' = latest_data]_vars

\* update_excel has raised in a cycle that began with a snapshot in place.
C5_Witness ==
    /\ pc = "except"
    /\ exc = "OSError"
    /\ IsNone(read_at)
    /\ ~IsNone(latest_data.data)
    /\ latest_data = cycle_start

\* C6: the successful cycles of one wall-clock hour write the document once
\* between them: a cycle that ends well has written it exactly when no
\* document had been written for the hour it read.
C6_OneReportPerHour ==
    [][/\ (pc = "report" /\ pc' = "done") => doc_at # read_at
       /\ (pc = "hour" /\ pc' = "done") => doc_at' = read_at']_vars

\* The sum of Price x Volume over the rows that have both.
CapSum(rows) ==
    LET both == SelectSeq(rows, LAMBDA row :
                    ~IsNaN(row.Price) /\ ~IsNaN(row.Volume_24h))
    IN  SeqSum([j \in 1..Len(both) |->
                    Val(both[j].Price) * Val(both[j].Volume_24h)])

\* table and st are the table and the stats of one cycle.
Paired(table, st, ts) ==
    /\ st.market_overview.total_market_cap = Some(CapSum(table))
    /\ st.timestamp = ts
    /\ st = analyze_market(table, ts)

\* C10: the stats of a non-empty snapshot are those computed from its own
\* table (total_market_cap is the sum of Price x Volume over its rows), and so
\* are the table and stats written to the spreadsheet and to the document.
C10_StatsPairedWithTable ==
    /\ ~IsNone(latest_data.data) =>
            Paired(Val(latest_data.data), Val(latest_data.stats),
                   Val(latest_data.last_updated))
    /\ ~IsNone(excel_file) =>
            Paired(Val(excel_file).data, Val(excel_file).stats,
                   Val(excel_file).stats.timestamp)
    /\ ~IsNone(report_file) =>
            Paired(Val(report_file).data, Val(report_file).stats,
                   Val(report_file).stats.timestamp)

\* A later cycle has replaced the snapshot and the spreadsheet while the
\* document is still the one of an earlier hour.
C10_Witness ==
    /\ pc = "sleep"
    /\ ~IsNone(latest_data.data)
    /\ ~IsNone(excel_file)
    /\ ~IsNone(report_file)
    /\ Len(Val(latest_data.data)) = 3
    /\ Val(report_file).data # Val(latest_data.data)

\* C15: last_report_hour changes only in the step in which make_report()
\* returns, and becomes the hour read in that cycle; a cycle that fails (at
\* the fetch, in the aggregation, at the spreadsheet or at the document)
\* leaves it as it was, so that after a failed document write the next cycle
\* that gets as far in the same wall-clock hour calls make_report() again.
C15_MarkerSetByReportOnly ==
    [][/\ last_report_hour' # last_report_hour =>
            /\ pc = "report" /\ pc' = "done"
            /\ last_report_hour' = current_hour
            /\ current_hour = Some(Val(read_at) % HoursPerDay)
       /\ (Raises \/ (FetchReturns /\ Falsy(data'))) =>
            last_report_hour' = last_report_hour
       /\ (pc = "hour" /\ pc' # "hour" /\ failed_at = Some(clock)) =>
            pc' = "report"]_vars

\* A document was written in an earlier hour, the write of this hour has
\* failed, and a later cycle of this hour is at make_report() again.
C15_Witness ==
    /\ pc = "report"
    /\ ~IsNone(last_report_hour)
    /\ ~IsNone(read_at)
    /\ failed_at = read_at
    /\ last_report_hour # current_hour

----------------------------------------------------------------------------
(* Claims about home(), checked under HomeSpec *)

\* C2: the data, stats and last_updated that home() hands to the template
\* are those of one snapshot: the stats are the ones computed from that very
\* table, and the timestamp is theirs.
C2_HomeSeesOneSnapshot ==
    h_pc = "render" =>
        /\ h_last_updated = Some(Val(h_stats).timestamp)
        /\ Val(h_stats) = analyze_market(Val(h_data), Val(h_stats).timestamp)

\* The snapshot holds a table, its stats and their timestamp.
FullSnapshot ==
    /\ ~IsNone(latest_data.data)
    /\ ~IsNone(latest_data.stats)
    /\ ~IsNone(latest_data.last_updated)

\* C16: the three fields of latest_data are None together, from start-up
\* until the assignment that follows the first successful spreadsheet write,
\* and a home() request that finds them so answers 'Loading data' and
\* renders nothing; a stored snapshot is never reset to the empty one (so a
\* request that passed the None test renders values, not None), and no step
\* of home() changes latest_data.
C16_LoadingUntilFirstSnapshot ==
    /\ [](/\ latest_data = EmptySnapshot \/ FullSnapshot
          /\ IsNone(excel_file) => latest_data = EmptySnapshot
          /\ h_pc # "idle" => FullSnapshot
          /\ h_pc = "render" =>
                ~IsNone(h_data) /\ ~IsNone(h_stats) /\ ~IsNone(h_last_updated))
    /\ [][/\ latest_data' # latest_data =>
               (pc = "store" /\ pc' = "hour" /\ latest_data' # EmptySnapshot)
          /\ (pc = "store" /\ pc' # "store") => latest_data' # EmptySnapshot
          /\ (homeVars' # homeVars /\ h_pc = "idle"
                   /\ latest_data = EmptySnapshot) =>
               h_response' = "loading" /\ h_pc' = "idle"
          /\ homeVars' # homeVars => latest_data' = latest_data]_vars

\* The first cycle has failed at the spreadsheet and a request made since
\* was answered 'Loading data'.
C16_Witness ==
    /\ latest_data = EmptySnapshot
    /\ h_response = "loading"
    /\ pc = "except"
    /\ exc = "OSError"

----------------------------------------------------------------------------
(* Claims about stopping and about running on, checked under StopSpec *)

\* C7: once stop() has cleared running, the loop test lets no new cycle
\* begin (a cycle begins when the test at the head of the loop passes); the
\* cycle in flight is not cut short, run() returns at the next test, and the
\* join in stop() returns.
C7_StopEndsLoop ==
    /\ [][(~running /\ pc = "test") => pc' = "exited"]_vars
    /\ [][(~running /\ pc \notin {"test", "exited"}) => pc' # "exited"]_vars
    /\ (stop_pc = "join") ~> (pc = "exited" /\ stop_pc = "stopped")

\* stop() was called during a cycle, which has run on to its sleep.
C7_Witness ==
    /\ ~running
    /\ stop_pc = "join"
    /\ pc = "sleep"
    /\ ~IsNone(latest_data.data)

\* C8: while no stop is requested run() does not return, and from any point
\* of any cycle, however it ends, a further fetch begins.
C8_LoopRunsOn ==
    /\ [](pc = "exited" => ~running)
    /\ running ~> (pc = "fetch" \/ ~running)

\* A cycle has ended in an exception and no stop has been requested.
C8_Witness ==
    /\ running
    /\ stop_pc = "idle"
    /\ pc = "except"
    /\ exc = "OSError"

----------------------------------------------------------------------------
(* Claims about the aggregator, checked under AggSpec *)

\* Every numeric field of every row parses.
AllParseable(raw) ==
    \A i \in 1..Len(raw) : \A col \in number_cols :
        col \in DOMAIN raw[i] /\ ~IsNaN(to_numeric(raw[i][col]))

\* The place of row i when the rows are ranked by quoteVolume, largest
\* first, rows of equal quoteVolume in input order.
StableRank(qvol, i) ==
    1 + Cardinality({j \in DOMAIN qvol :
                        qvol[j] > qvol[i] \/ (qvol[j] = qvol[i] /\ j < i)})

\* C9: for rows whose numeric fields all parse, process_data returns
\* min(50, number of rows) rows: those of largest quoteVolume, in descending
\* order of quoteVolume, rows of equal quoteVolume in input order.
C9_StableTopByVolume ==
    (pc = "analyze" /\ AllParseable(Val(data))) =>
        LET raw == Val(data)
            qvol == [i \in 1..Len(raw) |-> Val(to_numeric(raw[i].quoteVolume))]
        IN  /\ Len(df) = Min2(TopN, Len(raw))
            /\ \A j \in 1..Len(df) : StableRank(qvol, df[j].idx) = j

----------------------------------------------------------------------------
(* Claims about the aggregator, checked under RowSpec *)

\* The rows of the table whose 24h change is a number that satisfies test.
ChangeRowsWhere(table, test(_)) ==
    {j \in 1..Len(table) :
        ~IsNaN(table[j].Change_24h) /\ test(Val(table[j].Change_24h))}

\* C11: positive_performers counts exactly the rows whose 24h change is > 0
\* and negative_performers exactly those whose change is < 0; a row whose
\* change is zero or undefined is in neither count, so the two counts add up
\* to at most the number of rows.
C11_PerformersPartition ==
    pc = "excel" =>
        LET health == Val(stats).market_health
            up == ChangeRowsWhere(df, LAMBDA x : x > 0)
            down == ChangeRowsWhere(df, LAMBDA x : x < 0)
            flat == {j \in 1..Len(df) :
                        IsNaN(df[j].Change_24h) \/ Val(df[j].Change_24h) = 0}
        IN  /\ health.positive_performers = Cardinality(up)
            /\ health.negative_performers = Cardinality(down)
            /\ health.positive_performers + health.negative_performers
                    = Len(df) - Cardinality(flat)
            /\ health.positive_performers + health.negative_performers
                    <= Len(df)

\* A table with a row up, a flat row and a row of undefined change has been
\* analyzed.
C11_Witness ==
    /\ pc = "excel"
    /\ Len(df) = 3
    /\ \E j \in 1..3 : df[j].Change_24h = Some(0)
    /\ \E j \in 1..3 : IsNaN(df[j].Change_24h)
    /\ Val(stats).market_health.positive_performers = 1
    /\ Val(stats).market_health.negative_performers = 0

\* Raw row i has the field col and it does not parse.
IsMalformed(raw, i, col) ==
    col \in DOMAIN raw[i] /\ IsNaN(to_numeric(raw[i][col]))

\* The column of the table that shows a numeric field of the input; the
\* table has no column for quoteVolume.
TableColumn(col) ==
    CASE col = "lastPrice" -> "Price"
      [] col = "volume" -> "Volume_24h"
      [] col = "priceChangePercent" -> "Change_24h"
      [] col = "weightedAvgPrice" -> "Avg_Price"
      [] OTHER -> "none"

\* The rows of the table that have a number in column col.
Defined(table, col) == SelectSeq(table, LAMBDA row : ~IsNaN(row[col]))

\* C12: when an eligible row has a numeric field that does not parse, the
\* aggregation raises nothing, the row is in the table with that field
\* undefined, and the means and medians are those of the rows that have the
\* field; for any number of rows and any of the five fields.
C12_MalformedRowKept ==
    LET raw == Val(data)
        bad == {<<i, col>> \in (1..Len(raw)) \X number_cols :
                    IsMalformed(raw, i, col)}
    IN  (pc # "process" /\ bad # {}) =>
            /\ pc # "except"
            /\ \A b \in bad :
                    \E j \in 1..Len(df) :
                        /\ df[j].idx = b[1]
                        /\ TableColumn(b[2]) # "none" =>
                                IsNaN(df[j][TableColumn(b[2])])
            /\ pc = "excel" =>
                    LET st == Val(stats)
                        prices == Defined(df, "Price")
                        changes == Defined(df, "Change_24h")
                    IN  /\ st.market_overview.avg_price = ColMean(prices, "Price")
                        /\ st.market_overview.median_price
                                = ColMedian(prices, "Price")
                        /\ st.detailed_analysis.price_changes.average_24h_change
                                = ColMean(changes, "Change_24h")

\* The symbol without its last token: the suffix alone is taken off.
StripSuffix(sym) == SubSeq(sym, 1, Len(sym) - 1)

\* C13: the base symbol of an eligible row is its symbol with only the
\* trailing USDT removed; the row's name is the entry of the name map for
\* the uppercased base symbol, or the base symbol when the map has no entry
\* (or is empty, the name request having failed); the Symbol column shows the
\* base symbol and the Name column the name.
C13_BaseSymbolIsSuffixStripped ==
    pc = "analyze" =>
        LET raw == Val(data)
        IN  /\ \E c \in CoinResponses :
                    \A i \in 1..Len(raw) :
                        raw[i].name =
                            names_get(get_coin_names(c),
                                      upper_sym(StripSuffix(raw[i].symbol)))
            /\ \A j \in 1..Len(df) :
                    /\ df[j].Symbol = StripSuffix(raw[df[j].idx].symbol)
                    /\ df[j].Name = raw[df[j].idx].name

\* C14: given no rows, process_data returns an empty table and
\* analyze_market returns stats with zero sums and undefined means and
\* medians; neither raises.
C14_EmptyInputDefined ==
    (Val(data) = <<>> /\ pc # "process") =>
        /\ pc # "except"
        /\ df = <<>>
        /\ pc = "excel" =>
                LET st == Val(stats)
                IN  /\ st.market_overview.total_market_cap = Some(0)
                    /\ st.market_overview.total_volume_24h = Some(0)
                    /\ IsNaN(st.market_overview.avg_price)
                    /\ IsNaN(st.market_overview.median_price)

====
